---- MODULE Spec2Model ----
(***************************************************************************)
(* The interactive GATT shell of jni/attrib/interactive.c as a state       *)
(* machine: one step is one turn of the GLib main loop (an input line, a   *)
(* connect completion, a response to the request at the head of the ATT    *)
(* queue, an unsolicited PDU, or a hang-up of the transport).              *)
(*                                                                         *)
(* C strings are tuples of one-character strings, so that strcasecmp,      *)
(* g_strcmp0 and strtoll are computed character by character.              *)
(***************************************************************************)
EXTENDS Integers, Sequences, FiniteSets, TLC

(***************************************************************************)
(* Bounds of the model.                                                    *)
(***************************************************************************)
\* requests that may wait in the attribute client's queue
MaxPending == 2
\* attributes the peer returns in one response page
MaxPage == 2

(***************************************************************************)
(* Protocol constants (att.h), as interactive.c uses them.                 *)
(***************************************************************************)
ATT_ECODE_INVALID_HANDLE == 1
ATT_ECODE_INVALID_PDU == 4
ATT_ECODE_INVALID_OFFSET == 7
ATT_ECODE_ATTR_NOT_FOUND == 10
ATT_ECODE_UNLIKELY == 14
ATT_DEFAULT_LE_MTU == 23
ATT_OP_HANDLE_NOTIFY == 27
ATT_OP_HANDLE_IND == 29
\* an opcode that is neither a notification nor an indication
ATT_OP_OTHER == 1
\* -EINVAL, the value strtohandle returns for a string that is no handle
EINVAL == 22
\* the largest attribute handle, the literal 0xffff of the source
HANDLE_MAX == 65535

STATE_DISCONNECTED == "STATE_DISCONNECTED"
STATE_CONNECTING == "STATE_CONNECTING"
STATE_CONNECTED == "STATE_CONNECTED"
States == {STATE_DISCONNECTED, STATE_CONNECTING, STATE_CONNECTED}

\* a NULL char pointer
NULL == <<"NULL">>

(***************************************************************************)
(* Characters and the C library's conversions.                             *)
(***************************************************************************)
UpperCase ==
  <<"A","B","C","D","E","F","G","H","I","J","K","L","M",
    "N","O","P","Q","R","S","T","U","V","W","X","Y","Z">>
LowerCase ==
  <<"a","b","c","d","e","f","g","h","i","j","k","l","m",
    "n","o","p","q","r","s","t","u","v","w","x","y","z">>
Digits == <<"0","1","2","3","4","5","6","7","8","9">>

\* tolower and toupper of the C locale, as tables over the letters
ToLowerTable == [c \in {UpperCase[i] : i \in 1..Len(UpperCase)} |->
                   LowerCase[CHOOSE i \in 1..Len(UpperCase) : UpperCase[i] = c]]
ToUpperTable == [c \in {LowerCase[i] : i \in 1..Len(LowerCase)} |->
                   UpperCase[CHOOSE i \in 1..Len(LowerCase) : LowerCase[i] = c]]
\* the value of each digit character: 0-9, then a-z and A-Z as 10-35
DigitTable ==
  [c \in {Digits[i] : i \in 1..Len(Digits)}
         \cup {LowerCase[i] : i \in 1..Len(LowerCase)}
         \cup {UpperCase[i] : i \in 1..Len(UpperCase)} |->
     IF \E i \in 1..Len(Digits) : Digits[i] = c
     THEN (CHOOSE i \in 1..Len(Digits) : Digits[i] = c) - 1
     ELSE IF \E i \in 1..Len(LowerCase) : LowerCase[i] = c
     THEN 9 + (CHOOSE i \in 1..Len(LowerCase) : LowerCase[i] = c)
     ELSE 9 + (CHOOSE i \in 1..Len(UpperCase) : UpperCase[i] = c)]

tolower(c) == IF c \in DOMAIN ToLowerTable THEN ToLowerTable[c] ELSE c
toupper(c) == IF c \in DOMAIN ToUpperTable THEN ToUpperTable[c] ELSE c

\* strcasecmp(a, b) == 0
strcasecmp_eq(a, b) ==
  /\ Len(a) = Len(b)
  /\ \A i \in 1..Len(a) : tolower(a[i]) = tolower(b[i])

\* g_strcmp0(a, b) == 0: byte-wise equality
g_strcmp0_eq(a, b) == a = b

\* the value of the character c as a digit, or 99 when it is no digit
DigitVal(c) == IF c \in DOMAIN DigitTable THEN DigitTable[c] ELSE 99

IsDigit(c, base) == DigitVal(c) < base

\* the number of characters of s, from position i on, that are digits in base
RECURSIVE DigitRun(_, _, _)
DigitRun(s, i, base) ==
  IF i > Len(s) \/ ~IsDigit(s[i], base) THEN 0
  ELSE 1 + DigitRun(s, i + 1, base)

\* the value of the n digits of s from position i on, acc being the value so far
RECURSIVE DigitsValue(_, _, _, _, _)
DigitsValue(s, i, n, base, acc) ==
  IF n = 0 THEN acc
  ELSE DigitsValue(s, i + 1, n - 1, base, acc * base + DigitVal(s[i]))

\* strtoll(s, &e, base) for base 0 or 16: [val, endp], endp the index of *e
\* (Len(s) + 1 when the whole string was consumed).  The model's strings are
\* too short to leave the range of int, so errno stays 0 and the conversion of
\* the result to int changes nothing.
strtoll_digits(s, neg, p2, b) ==
  LET n == DigitRun(s, p2, b)
  IN IF n = 0 THEN [val |-> 0, endp |-> 1]
     ELSE [val |-> (IF neg THEN 0 - 1 ELSE 1) * DigitsValue(s, p2, n, b, 0),
           endp |-> p2 + n]

\* the digits start at p1, after the sign; hexpfx tells whether "0x" and a
\* hexadecimal digit follow
strtoll_prefix(s, base, p1, hexpfx) ==
  strtoll_digits(s, Len(s) >= 1 /\ s[1] = "-",
                 IF hexpfx THEN p1 + 2 ELSE p1,
                 IF base = 16 \/ hexpfx THEN 16
                 ELSE IF Len(s) >= p1 /\ s[p1] = "0" THEN 8
                 ELSE 10)

strtoll_sign(s, base, p1) ==
  strtoll_prefix(s, base, p1,
                 /\ base \in {0, 16}
                 /\ Len(s) >= p1 + 2
                 /\ s[p1] = "0"
                 /\ s[p1 + 1] \in {"x", "X"}
                 /\ IsDigit(s[p1 + 2], 16))

strtoll(s, base) ==
  strtoll_sign(s, base, IF Len(s) >= 1 /\ s[1] \in {"-", "+"} THEN 2 ELSE 1)

\* the conversion of an int to uint16_t
U16(v) == v % 65536

\* strtohandle(src): the handle, or -EINVAL when src has trailing characters
handle_or_einval(src, r) ==
  IF r.endp # Len(src) + 1 THEN 0 - EINVAL ELSE r.val

strtohandle(src) == handle_or_einval(src, strtoll(src, 16))

(***************************************************************************)
(* The program's state: the file-scope variables of interactive.c, the     *)
(* state the transport and the attribute client hold for it, and what the  *)
(* last turn of the main loop did.                                         *)
(***************************************************************************)
VARIABLES
  conn_state,     \* enum state conn_state
  conn_handle,    \* uint16_t conn_handle
  iochannel,      \* GIOChannel *iochannel: TRUE when not NULL
  attrib,         \* GAttrib *attrib: TRUE when not NULL
  opt_dst,        \* gchar *opt_dst
  opt_dst_type,   \* gchar *opt_dst_type
  opt_sec_level,  \* gchar *opt_sec_level
  opt_psm,        \* int opt_psm
  opt_mtu,        \* int opt_mtu
  start,          \* int start
  end,            \* int end
  connecting,     \* the transport has a connect attempt in flight
  watch,          \* a G_IO_HUP watch is installed on an open channel
  pending,        \* the attribute client's queue of requests awaiting a response
  event_loop,     \* "running", "quit" (g_main_loop_quit called), "returned" or
                  \* "crashed" (the process was killed)
  out,            \* the lines the last turn printed
  sent,           \* the PDUs the last turn handed to the attribute client
  tried,          \* the connect attempts the last turn started, each as the
                  \* connection state it was started in
  mtu_reqs,       \* history: MTU exchange requests sent on the current connection
  last            \* history: the event the last turn handled

vars == <<conn_state, conn_handle, iochannel, attrib, opt_dst, opt_dst_type,
          opt_sec_level, opt_psm, opt_mtu, start, end, connecting, watch,
          pending, event_loop, out, sent, tried, mtu_reqs, last>>

\* the state a handler works on, as one record
Globals ==
  [conn_state |-> conn_state, conn_handle |-> conn_handle,
   iochannel |-> iochannel, attrib |-> attrib,
   opt_dst |-> opt_dst, opt_dst_type |-> opt_dst_type,
   opt_sec_level |-> opt_sec_level, opt_psm |-> opt_psm, opt_mtu |-> opt_mtu,
   start |-> start, end |-> end, connecting |-> connecting, watch |-> watch,
   pending |-> pending, event_loop |-> event_loop,
   out |-> <<>>, sent |-> <<>>, tried |-> <<>>]

(***************************************************************************)
(* Output lines and requests.                                              *)
(***************************************************************************)
\* the code field of a line that prints no result code
NoCode == 0 - 1

\* one printed line "TAG(conn): code msg data"
Line(tag, conn, code, msg, data) ==
  [tag |-> tag, conn |-> conn, code |-> code, msg |-> msg, data |-> data]

printf(g, line) == [g EXCEPT !.out = Append(@, line)]

NoUser == [orig_start |-> 0, start |-> 0, end |-> 0]
\* history a request carries: the requests its operation has issued so far, this
\* one included, and the codes of the -END lines the operation has printed
FirstPage == [reqs |-> 1, ends |-> <<>>]

Request(kind, a, b, uuid, cb, user, hist) ==
  [kind |-> kind, a |-> a, b |-> b, uuid |-> uuid, cb |-> cb, user |-> user,
   hist |-> hist]

NoReq == Request("none", 0, 0, NULL, "NULL", NoUser, FirstPage)

\* a request with a completion callback: sent, and queued until its response
g_attrib_send(g, req) ==
  [g EXCEPT !.pending = Append(@, req), !.sent = Append(@, req)]

\* a PDU without completion callback: sent, nothing waits for an answer
g_attrib_send_nocb(g, req) == [g EXCEPT !.sent = Append(@, req)]

(***************************************************************************)
(* Connection state machine.                                               *)
(***************************************************************************)
set_state_keeps_handle(g, st) == [g EXCEPT !.conn_state = st]

set_state(g, st) ==
  [g EXCEPT !.conn_state = st,
            !.conn_handle = IF st # STATE_CONNECTED THEN 0 ELSE @]

\* g_attrib_unref and g_io_channel_shutdown/unref as disconnect_io uses them:
\* the queued requests and the connect attempt are dropped with the client and
\* the channel, and the closed channel's watch cannot fire any more
transport_teardown(g) ==
  [g EXCEPT !.pending = <<>>, !.connecting = FALSE, !.watch = FALSE]

disconnect_io_no_teardown(g) ==
  IF g.conn_state = STATE_DISCONNECTED THEN g
  ELSE LET g1 == [g EXCEPT !.attrib = FALSE, !.opt_mtu = 0, !.iochannel = FALSE]
           g2 == printf(g1, Line("DISCONNECTED", g1.conn_handle, NoCode, "", <<>>))
       IN set_state(g2, STATE_DISCONNECTED)

disconnect_io_keeps_mtu(g) ==
  IF g.conn_state = STATE_DISCONNECTED THEN g
  ELSE LET g1 == [transport_teardown(g) EXCEPT !.attrib = FALSE, !.iochannel = FALSE]
           g2 == printf(g1, Line("DISCONNECTED", g1.conn_handle, NoCode, "", <<>>))
       IN set_state(g2, STATE_DISCONNECTED)

disconnect_io(g) ==
  IF g.conn_state = STATE_DISCONNECTED THEN g
  ELSE LET g1 == [transport_teardown(g) EXCEPT !.attrib = FALSE, !.opt_mtu = 0,
                                               !.iochannel = FALSE]
           g2 == printf(g1, Line("DISCONNECTED", g1.conn_handle, NoCode, "", <<>>))
       IN set_state(g2, STATE_DISCONNECTED)

connect_cb_err_keeps_state(g, err, gerr, h) ==
  IF err # 0
  THEN printf(g, Line("CONNECTED", g.conn_handle, err, "", <<>>))
  ELSE LET g1 == [g EXCEPT !.attrib = TRUE, !.conn_handle = h]
       IN IF gerr # 0
          THEN [printf(g1, Line("CONNECTED", g1.conn_handle, gerr, "", <<>>))
                  EXCEPT !.conn_handle = 0]
          ELSE set_state(printf(g1, Line("CONNECTED", g1.conn_handle, 0, "", <<>>)),
                         STATE_CONNECTED)

\* connect_cb(io, err, user_data): err is the error code of the attempt (0: none),
\* gerr the error of bt_io_get (0: none), h the handle bt_io_get stores
connect_cb(g, err, gerr, h) ==
  IF err # 0
  THEN LET g1 == set_state(g, STATE_DISCONNECTED)
       IN printf(g1, Line("CONNECTED", g1.conn_handle, err, "", <<>>))
  ELSE LET g1 == [g EXCEPT !.attrib = TRUE, !.conn_handle = h]
       IN IF gerr # 0
          THEN [printf(g1, Line("CONNECTED", g1.conn_handle, gerr, "", <<>>))
                  EXCEPT !.conn_handle = 0]
          ELSE set_state(printf(g1, Line("CONNECTED", g1.conn_handle, 0, "", <<>>)),
                         STATE_CONNECTED)

channel_watcher(g) ==
  LET g1 == printf(g, Line("DISCONNECTED", g.conn_handle, NoCode, "", <<>>))
  IN disconnect_io([g1 EXCEPT !.watch = FALSE])

cmd_exit(g, argv) == [g EXCEPT !.event_loop = "quit"]

\* gatt_connect(..., connect_cb): ok tells whether it returns a channel, on
\* which the attempt then runs until connect_cb is called
gatt_connect(g, ok) ==
  [g EXCEPT !.tried = Append(@, g.conn_state), !.iochannel = ok, !.connecting = ok]

\* what cmd_connect does once the destination is known
cmd_connect_attempt(g3) ==
  IF ~g3.iochannel THEN set_state(g3, STATE_DISCONNECTED)
  ELSE [g3 EXCEPT !.watch = TRUE]

cmd_connect_dst(g, argv) ==
  IF Len(argv) > 1
  THEN [g EXCEPT !.opt_dst = argv[2],
                 !.opt_dst_type = IF Len(argv) > 2 THEN argv[3]
                                  ELSE <<"p","u","b","l","i","c">>]
  ELSE g

cmd_connect_any_state(g, argv, ok) ==
  LET g1 == cmd_connect_dst(g, argv)
  IN IF g1.opt_dst = NULL
     THEN printf(g1, Line("CONNECT", 0, 1, "Remote Bluetooth address required", <<>>))
     ELSE cmd_connect_attempt(gatt_connect(set_state(g1, STATE_CONNECTING), ok))

cmd_connect(g, argv, ok) ==
  IF g.conn_state # STATE_DISCONNECTED THEN g
  ELSE
    LET g1 == cmd_connect_dst(g, argv)
    IN IF g1.opt_dst = NULL
       THEN printf(g1, Line("CONNECT", 0, 1, "Remote Bluetooth address required", <<>>))
       ELSE cmd_connect_attempt(gatt_connect(set_state(g1, STATE_CONNECTING), ok))

cmd_disconnect(g, argv) == disconnect_io(g)

(***************************************************************************)
(* Collaborators of the handlers: the UUID parser and the value parser.    *)
(***************************************************************************)
\* bt_string_to_uuid(&uuid, s) >= 0, for the 16-bit form: four hex digits
bt_string_to_uuid_ok(s) ==
  /\ Len(s) = 4
  /\ \A i \in 1..4 : IsDigit(s[i], 16)

\* gatt_attr_data_from_string(s, &value): the number of bytes, two characters each
gatt_attr_data_from_string(s) == Len(s) \div 2

(***************************************************************************)
(* Operation handlers.  argv[1] is the command name as typed (argvp[0] of  *)
(* the source), argcp is Len(argv).                                        *)
(***************************************************************************)
str_char_write_req == <<"c","h","a","r","-","w","r","i","t","e","-","r","e","q">>
str_low == <<"l","o","w">>
str_medium == <<"m","e","d","i","u","m">>
str_high == <<"h","i","g","h">>

cmd_primary(g, argv) ==
  IF g.conn_state # STATE_CONNECTED
  THEN printf(g, Line(IF Len(argv) # 0 THEN "PRIMARY-ALL" ELSE "PRIMARY-UUID",
                      0, 256, "Command failed: disconnected", <<>>))
  ELSE IF Len(argv) = 1
  THEN g_attrib_send(g, Request("discover_primary", 0, 0, NULL, "primary_all_cb",
                                NoUser, FirstPage))
  ELSE IF ~bt_string_to_uuid_ok(argv[2])
  THEN printf(g, Line("PRIMARY-UUID", g.conn_handle, 1, "Invalid UUID", <<>>))
  ELSE g_attrib_send(g, Request("discover_primary", 0, 0, argv[2],
                                "primary_by_uuid_cb", NoUser, FirstPage))

cmd_char(g, argv) ==
  LET lstart == IF Len(argv) > 1 THEN strtohandle(argv[2]) ELSE 1
      lend == IF Len(argv) > 2 THEN strtohandle(argv[3]) ELSE HANDLE_MAX
  IN
  IF g.conn_state # STATE_CONNECTED
  THEN printf(g, Line("CHAR-DESC-END", 0, 256, "disconnected", <<>>))
  ELSE IF Len(argv) > 1 /\ lstart < 0
  THEN printf(g, Line("CHAR-DESC-END", g.conn_handle, ATT_ECODE_INVALID_HANDLE,
                      "Invalid start handle", <<>>))
  ELSE IF Len(argv) > 2 /\ lend < 0
  THEN printf(g, Line("CHAR-DESC-END", g.conn_handle, ATT_ECODE_INVALID_HANDLE,
                      "Invalid end handle", <<>>))
  ELSE IF Len(argv) > 3
  THEN IF ~bt_string_to_uuid_ok(argv[4])
       THEN printf(g, Line("CHAR-DESC-END", g.conn_handle, ATT_ECODE_UNLIKELY,
                           "Invalid UUID", <<>>))
       ELSE g_attrib_send(g, Request("discover_char", U16(lstart), U16(lend), argv[4],
                                     "char_cb", NoUser, FirstPage))
  ELSE g_attrib_send(g, Request("discover_char", U16(lstart), U16(lend), NULL,
                                "char_cb", NoUser, FirstPage))

cmd_char_desc(g, argv) ==
  IF g.conn_state # STATE_CONNECTED
  THEN printf(g, Line("CHAR-DESC-END", 0, 256, "Command failed: disconnected", <<>>))
  ELSE
    LET g1 == [g EXCEPT !.start = IF Len(argv) > 1 THEN strtohandle(argv[2]) ELSE 1]
    IN IF Len(argv) > 1 /\ g1.start < 0
       THEN printf(g1, Line("CHAR-DESC-END", g1.conn_handle, ATT_ECODE_INVALID_HANDLE,
                            "Invalid start handle", <<>>))
       ELSE
         LET g2 == [g1 EXCEPT !.end = IF Len(argv) > 2 THEN strtohandle(argv[3])
                                      ELSE HANDLE_MAX]
         IN IF Len(argv) > 2 /\ g2.end < g2.start
            THEN printf(g2, Line("CHAR-DESC-END", g2.conn_handle,
                                 ATT_ECODE_INVALID_HANDLE, "Invalid end handle", <<>>))
            ELSE g_attrib_send(g2, Request("find_info", U16(g2.start), U16(g2.end), NULL,
                                           "char_desc_cb", NoUser, FirstPage))

cmd_read_hnd_no_gate(g, argv) ==
  IF Len(argv) < 2
  THEN printf(g, Line("CHAR-READ-HND", g.conn_handle, 1, "Missing argument: handle", <<>>))
  ELSE IF strtohandle(argv[2]) < 0
  THEN printf(g, Line("CHAR-READ-HND", g.conn_handle, 1, "Invalid handle", <<>>))
  ELSE g_attrib_send(g, Request("read_char", U16(strtohandle(argv[2])), 0, NULL,
                                "char_read_cb", NoUser, FirstPage))

cmd_read_hnd(g, argv) ==
  IF g.conn_state # STATE_CONNECTED
  THEN printf(g, Line("CHAR-READ-HND", 0, 256, "Command failed: disconnected", <<>>))
  ELSE IF Len(argv) < 2
  THEN printf(g, Line("CHAR-READ-HND", g.conn_handle, 1, "Missing argument: handle", <<>>))
  ELSE IF strtohandle(argv[2]) < 0
  THEN printf(g, Line("CHAR-READ-HND", g.conn_handle, 1, "Invalid handle", <<>>))
  ELSE
    LET off == IF Len(argv) > 2 THEN strtoll(argv[3], 0)
               ELSE [val |-> 0, endp |-> 1]
    IN IF Len(argv) > 2 /\ off.endp # Len(argv[3]) + 1
       THEN printf(g, Line("CHAR-READ-HND", g.conn_handle, ATT_ECODE_INVALID_OFFSET,
                           "Invalid offset", <<>>))
       ELSE g_attrib_send(g, Request("read_char", U16(strtohandle(argv[2])),
                                     U16(off.val), NULL, "char_read_cb",
                                     NoUser, FirstPage))

cmd_read_uuid(g, argv) ==
  LET lstart == IF Len(argv) > 2 THEN strtohandle(argv[3]) ELSE 1
      lend == IF Len(argv) > 3 THEN strtohandle(argv[4]) ELSE HANDLE_MAX
  IN
  IF g.conn_state # STATE_CONNECTED
  THEN printf(g, Line("CHAR-READ-UUID", 0, 256, "Command failed: disconnected", <<>>))
  ELSE IF Len(argv) < 2
  THEN printf(g, Line("CHAR-READ-UUID", g.conn_handle, 1, "Missing argument: UUID", <<>>))
  ELSE IF ~bt_string_to_uuid_ok(argv[2])
  THEN printf(g, Line("CHAR-READ-UUID", g.conn_handle, 1, "Invalid UUID", <<>>))
  ELSE IF Len(argv) > 2 /\ lstart < 0
  THEN printf(g, Line("CHAR-READ-UUID", g.conn_handle, ATT_ECODE_INVALID_HANDLE,
                      "Invalid start handle", <<>>))
  ELSE IF Len(argv) > 3 /\ lend < lstart
  THEN printf(g, Line("CHAR-READ-UUID", g.conn_handle, ATT_ECODE_INVALID_HANDLE,
                      "Invalid end handle", <<>>))
  ELSE g_attrib_send(g, Request("read_char_by_uuid", U16(lstart), U16(lend), argv[2],
                                "char_read_by_uuid_cb",
                                [orig_start |-> U16(lstart), start |-> U16(lstart),
                                 end |-> U16(lend)],
                                FirstPage))

cmd_char_write(g, argv) ==
  IF Len(argv) < 3
  THEN printf(g, Line("CHAR-WRITE-", g.conn_handle, 257, "Usage", <<>>))
  ELSE
    LET mode == g_strcmp0_eq(str_char_write_req, argv[1])
        tag == IF mode THEN "CHAR-WRITE-REQ" ELSE "CHAR-WRITE-CMD"
        handle == strtohandle(argv[2])
        plen == gatt_attr_data_from_string(argv[3])
    IN IF g.conn_state # STATE_CONNECTED
       THEN printf(g, Line(tag, 0, 256, "Command failed: disconnected", <<>>))
       ELSE IF handle <= 0
       THEN printf(g, Line(tag, g.conn_handle, ATT_ECODE_INVALID_HANDLE,
                           "A valid handle is required", <<>>))
       ELSE IF plen = 0
       THEN printf(g, Line(tag, g.conn_handle, ATT_ECODE_INVALID_HANDLE,
                           "invalid value", <<>>))
       ELSE IF g_strcmp0_eq(str_char_write_req, argv[1])
       THEN g_attrib_send(g, Request("write_char", U16(handle), plen, NULL,
                                     "char_write_req_cb", NoUser, FirstPage))
       ELSE printf(g_attrib_send_nocb(g, Request("write_char", U16(handle), plen, NULL,
                                                 "NULL", NoUser, FirstPage)),
                   Line("CHAR-WRITE-CMD", g.conn_handle, 0, "", <<>>))

\* cmd_sec_level: set_err is the error code of bt_io_set (0: none)
cmd_sec_level(g, argv, set_err) ==
  IF Len(argv) < 2
  THEN printf(g, Line("SEC-LEVEL", g.conn_handle, 0, "", <<>>))
  ELSE IF ~(\/ strcasecmp_eq(argv[2], str_medium)
            \/ strcasecmp_eq(argv[2], str_high)
            \/ strcasecmp_eq(argv[2], str_low))
  THEN printf(g, Line("SEC-LEVEL", g.conn_handle, 257,
                      "Allowed values: low | medium | high", <<>>))
  ELSE
    LET g1 == [g EXCEPT !.opt_sec_level = argv[2]]
    IN IF g1.opt_psm = 0 /\ g1.conn_state # STATE_CONNECTED
       THEN printf(g1, Line("SEC-LEVEL", 0, 256,
                            "It can only be done when connected for LE connections",
                            <<>>))
       ELSE
         LET g2 == IF g1.opt_psm # 0 /\ g1.conn_state # STATE_DISCONNECTED
                   THEN printf(g1, Line("SEC-LEVEL", g1.conn_handle, 256,
                                        "It must be disconnected to this change take effect",
                                        <<>>))
                   ELSE g1
         IN IF g2.iochannel /\ set_err # 0
            THEN printf(g2, Line("SEC-LEVEL", g2.conn_handle, set_err, "", <<>>))
            ELSE printf(g2, Line("SEC-LEVEL", g2.conn_handle, 0, "", <<>>))

cmd_mtu_no_once(g, argv) ==
  IF g.conn_state # STATE_CONNECTED
  THEN printf(g, Line("MTU", 0, 256, "Command failed: not connected.", <<>>))
  ELSE IF g.opt_psm # 0
  THEN printf(g, Line("MTU", g.conn_handle, 256,
                      "Command failed: operation is only available for LE transport.",
                      <<>>))
  ELSE IF Len(argv) < 2
  THEN printf(g, Line("MTU", g.conn_handle, 257, "Usage: mtu <value>", <<>>))
  ELSE
    LET g1 == [g EXCEPT !.opt_mtu = strtoll(argv[2], 0).val]
    IN IF g1.opt_mtu < ATT_DEFAULT_LE_MTU
       THEN printf(g1, Line("MTU", g1.conn_handle, ATT_ECODE_UNLIKELY,
                            "Invalid value. Minimum MTU size is 23", <<>>))
       ELSE g_attrib_send(g1, Request("exchange_mtu", U16(g1.opt_mtu), 0, NULL,
                                      "exchange_mtu_cb", NoUser, FirstPage))

cmd_mtu(g, argv) ==
  IF g.conn_state # STATE_CONNECTED
  THEN printf(g, Line("MTU", 0, 256, "Command failed: not connected.", <<>>))
  ELSE IF g.opt_psm # 0
  THEN printf(g, Line("MTU", g.conn_handle, 256,
                      "Command failed: operation is only available for LE transport.",
                      <<>>))
  ELSE IF Len(argv) < 2
  THEN printf(g, Line("MTU", g.conn_handle, 257, "Usage: mtu <value>", <<>>))
  ELSE IF g.opt_mtu # 0
  THEN printf(g, Line("MTU", g.conn_handle, ATT_ECODE_UNLIKELY,
                      "Command failed: MTU exchange can only occur once per connection.",
                      <<>>))
  ELSE
    LET g1 == [g EXCEPT !.opt_mtu = strtoll(argv[2], 0).val]
    IN IF g1.opt_mtu < ATT_DEFAULT_LE_MTU
       THEN printf(g1, Line("MTU", g1.conn_handle, ATT_ECODE_UNLIKELY,
                            "Invalid value. Minimum MTU size is 23", <<>>))
       ELSE g_attrib_send(g1, Request("exchange_mtu", U16(g1.opt_mtu), 0, NULL,
                                      "exchange_mtu_cb", NoUser, FirstPage))

cmd_psm(g, argv) ==
  IF g.conn_state = STATE_CONNECTED
  THEN printf(g, Line("PSM", g.conn_handle, 256, "Command failed: connected.", <<>>))
  ELSE IF Len(argv) < 2
  THEN printf(g, Line("PSM", 0, 257, "Usage: psm <value>", <<>>))
  ELSE LET g1 == [g EXCEPT !.opt_psm = strtoll(argv[2], 0).val]
       IN printf(g1, Line("PSM", 0, g1.opt_psm, "", <<>>))

(***************************************************************************)
(* Completion callbacks.  req is the request that is answered; rsp is the  *)
(* answer: status, whether the PDU decodes, the handles of the attributes  *)
(* it lists, which write response it is, and whether g_attrib_set_mtu      *)
(* accepts the negotiated size.                                            *)
(***************************************************************************)
RECURSIVE print_items(_, _, _)
print_items(g, tag, items) ==
  IF items = <<>> THEN g
  ELSE print_items(printf(g, Line(tag, g.conn_handle, NoCode, "", <<Head(items)>>)),
                   tag, Tail(items))

primary_all_cb(g, req, rsp) ==
  IF rsp.status # 0
  THEN printf(g, Line("PRIMARY-ALL-END", g.conn_handle, rsp.status, "", <<>>))
  ELSE printf(print_items(g, "PRIMARY-ALL", rsp.items),
              Line("PRIMARY-ALL-END", g.conn_handle, 0, "", <<>>))

primary_by_uuid_cb(g, req, rsp) ==
  IF rsp.status # 0
  THEN printf(g, Line("PRIMARY-UUID-END", g.conn_handle, rsp.status, "", <<>>))
  ELSE printf(print_items(g, "PRIMARY-UUID", rsp.items),
              Line("PRIMARY-UUID-END", g.conn_handle, 0, "", <<>>))

char_cb(g, req, rsp) ==
  IF rsp.status # 0
  THEN printf(g, Line("CHAR-END", g.conn_handle, rsp.status, "", <<>>))
  ELSE printf(print_items(g, "CHAR", rsp.items),
              Line("CHAR-END", g.conn_handle, 0, "", <<>>))

char_desc_cb(g, req, rsp) ==
  IF rsp.status # 0
  THEN printf(g, Line("CHAR-DESC-END", g.conn_handle, rsp.status, "", <<>>))
  ELSE
    LET handle == IF rsp.decoded /\ rsp.items # <<>>
                  THEN U16(rsp.items[Len(rsp.items)])
                  ELSE HANDLE_MAX
        g1 == IF rsp.decoded THEN print_items(g, "CHAR-DESC", rsp.items) ELSE g
        g2 == printf(g1, Line("CHAR-DESC-END", g1.conn_handle, 0, "", <<>>))
    IN IF handle # HANDLE_MAX /\ handle < g2.end
       THEN g_attrib_send(g2, Request("find_info", U16(handle + 1), U16(g2.end), NULL,
                                      "char_desc_cb", NoUser,
                                      [reqs |-> req.hist.reqs + 1,
                                       ends |-> Append(req.hist.ends, 0)]))
       ELSE g2

char_read_cb(g, req, rsp) ==
  IF rsp.status # 0
  THEN printf(g, Line("CHAR-VAL-DESC", g.conn_handle, rsp.status, "", <<>>))
  ELSE IF ~rsp.decoded
  THEN printf(g, Line("CHAR-VAL-DESC", g.conn_handle, ATT_ECODE_INVALID_PDU, "", <<>>))
  ELSE printf(g, Line("CHAR-VAL-DESC", g.conn_handle, 0, "", rsp.items))

\* the cursor of the range record after the loop over the response's entries
char_data_after(char_data, rsp) ==
  IF rsp.status = 0 /\ rsp.decoded /\ rsp.items # <<>>
  THEN [char_data EXCEPT !.start = U16(rsp.items[Len(rsp.items)] + 1)]
  ELSE char_data

char_read_by_uuid_cb(g, req, rsp) ==
  IF rsp.status = ATT_ECODE_ATTR_NOT_FOUND /\ req.user.start # req.user.orig_start
  THEN g
  ELSE IF rsp.status # 0
  THEN printf(g, Line("CHAR-READ-UUID-END", g.conn_handle, rsp.status, "", <<>>))
  ELSE IF ~rsp.decoded
  THEN g
  ELSE printf(print_items(g, "CHAR-READ-UUID", rsp.items),
              Line("CHAR-READ-UUID-END", g.conn_handle, 0, "", <<>>))

char_write_req_cb(g, req, rsp) ==
  IF rsp.status # 0
  THEN printf(g, Line("CHAR-WRITE-REQ", g.conn_handle, rsp.status, "", <<>>))
  ELSE IF rsp.wr \notin {"write", "exec"}
  THEN printf(g, Line("CHAR-WRITE-REQ", g.conn_handle, 1, "", <<>>))
  ELSE printf(g, Line("CHAR-WRITE-REQ", g.conn_handle, 0, "", <<>>))

exchange_mtu_cb(g, req, rsp) ==
  IF rsp.status # 0
  THEN printf(g, Line("MTU", g.conn_handle, rsp.status, "", <<>>))
  ELSE IF ~rsp.decoded
  THEN printf(g, Line("MTU", g.conn_handle, ATT_ECODE_INVALID_PDU, "Protocol error", <<>>))
  ELSE IF rsp.set_ok
  THEN printf(g, Line("MTU", g.conn_handle, 0, "", <<>>))
  ELSE printf(g, Line("MTU", g.conn_handle, 129, "Error exchanging MTU", <<>>))

\* enc_confirmation(pdu, len): the length of the confirmation written to the
\* buffer of len bytes, 0 when the buffer cannot hold its one byte
enc_confirmation(len) == IF len < 1 THEN 0 ELSE 1

events_handler_no_confirmation(g, opcode, conf_ok) ==
  IF opcode = ATT_OP_HANDLE_NOTIFY
  THEN printf(g, Line("NOTIFICATION", g.conn_handle, NoCode, "", <<>>))
  ELSE IF opcode = ATT_OP_HANDLE_IND
  THEN printf(g, Line("INDICATION", g.conn_handle, NoCode, "", <<>>))
  ELSE printf(g, Line("ERROR", g.conn_handle, 256, "Invalid opcode", <<>>))

\* events_handler(pdu, len, user_data): opcode is pdu[0], conf_ok tells whether
\* enc_confirmation builds a confirmation
events_handler(g, opcode, conf_ok) ==
  IF opcode = ATT_OP_HANDLE_NOTIFY
  THEN printf(g, Line("NOTIFICATION", g.conn_handle, NoCode, "", <<>>))
  ELSE IF opcode = ATT_OP_HANDLE_IND
  THEN LET g1 == printf(g, Line("INDICATION", g.conn_handle, NoCode, "", <<>>))
       IN IF conf_ok
          THEN g_attrib_send_nocb(g1, Request("confirmation", 0, 0, NULL, "NULL",
                                              NoUser, FirstPage))
          ELSE g1
  ELSE printf(g, Line("ERROR", g.conn_handle, 256, "Invalid opcode", <<>>))

\* the completion callback a request was issued with, applied to its response
Complete(g, req, rsp) ==
  CASE req.cb = "primary_all_cb" -> primary_all_cb(g, req, rsp)
    [] req.cb = "primary_by_uuid_cb" -> primary_by_uuid_cb(g, req, rsp)
    [] req.cb = "char_cb" -> char_cb(g, req, rsp)
    [] req.cb = "char_desc_cb" -> char_desc_cb(g, req, rsp)
    [] req.cb = "char_read_cb" -> char_read_cb(g, req, rsp)
    [] req.cb = "char_read_by_uuid_cb" -> char_read_by_uuid_cb(g, req, rsp)
    [] req.cb = "char_write_req_cb" -> char_write_req_cb(g, req, rsp)
    [] req.cb = "exchange_mtu_cb" -> exchange_mtu_cb(g, req, rsp)

(***************************************************************************)
(* Command table and dispatcher.                                           *)
(***************************************************************************)
commands ==
  << [cmd |-> <<"h","e","l","p">>, func |-> "cmd_help"],
     [cmd |-> <<"e","x","i","t">>, func |-> "cmd_exit"],
     [cmd |-> <<"q","u","i","t">>, func |-> "cmd_exit"],
     [cmd |-> <<"c","o","n","n","e","c","t">>, func |-> "cmd_connect"],
     [cmd |-> <<"d","i","s","c","o","n","n","e","c","t">>, func |-> "cmd_disconnect"],
     [cmd |-> <<"p","r","i","m","a","r","y">>, func |-> "cmd_primary"],
     [cmd |-> <<"c","h","a","r","a","c","t","e","r","i","s","t","i","c","s">>,
      func |-> "cmd_char"],
     [cmd |-> <<"c","h","a","r","-","d","e","s","c">>, func |-> "cmd_char_desc"],
     [cmd |-> <<"c","h","a","r","-","r","e","a","d","-","h","n","d">>,
      func |-> "cmd_read_hnd"],
     [cmd |-> <<"c","h","a","r","-","r","e","a","d","-","u","u","i","d">>,
      func |-> "cmd_read_uuid"],
     [cmd |-> <<"c","h","a","r","-","w","r","i","t","e","-","r","e","q">>,
      func |-> "cmd_char_write"],
     [cmd |-> <<"c","h","a","r","-","w","r","i","t","e","-","c","m","d">>,
      func |-> "cmd_char_write"],
     [cmd |-> <<"s","e","c","-","l","e","v","e","l">>, func |-> "cmd_sec_level"],
     [cmd |-> <<"m","t","u">>, func |-> "cmd_mtu"],
     [cmd |-> <<"p","s","m">>, func |-> "cmd_psm"] >>

RECURSIVE help_rows(_, _)
help_rows(g, i) ==
  IF i > Len(commands) THEN g
  ELSE help_rows(printf(g, Line("HELP", 0, NoCode, "", <<i>>)), i + 1)

cmd_help(g, argv) == help_rows(g, 1)

\* commands[i].func(argcp, argvp); env holds what the transport answers to the
\* calls the handler makes synchronously
Invoke(func, g, argv, env) ==
  CASE func = "cmd_help" -> cmd_help(g, argv)
    [] func = "cmd_exit" -> cmd_exit(g, argv)
    [] func = "cmd_connect" -> cmd_connect(g, argv, env.connect_ok)
    [] func = "cmd_disconnect" -> cmd_disconnect(g, argv)
    [] func = "cmd_primary" -> cmd_primary(g, argv)
    [] func = "cmd_char" -> cmd_char(g, argv)
    [] func = "cmd_char_desc" -> cmd_char_desc(g, argv)
    [] func = "cmd_read_hnd" -> cmd_read_hnd(g, argv)
    [] func = "cmd_read_uuid" -> cmd_read_uuid(g, argv)
    [] func = "cmd_char_write" -> cmd_char_write(g, argv)
    [] func = "cmd_sec_level" -> cmd_sec_level(g, argv, env.set_err)
    [] func = "cmd_mtu" -> cmd_mtu(g, argv)
    [] func = "cmd_psm" -> cmd_psm(g, argv)

\* the for loop of parse_line from index i on: the index of the first command
\* whose name is argvp[0] without regard to case, Len(commands) + 1 if none is
RECURSIVE lookup(_, _)
lookup(name, i) ==
  IF i > Len(commands) \/ strcasecmp_eq(commands[i].cmd, name) THEN i
  ELSE lookup(name, i + 1)

\* parse_line(line_read): eof is line_read == NULL, argv the tokens of the line
\* (none for a blank line)
parse_line(g, eof, argv, env) ==
  IF eof THEN cmd_exit(g, <<>>)
  ELSE IF Len(argv) = 0 THEN g
  ELSE LET i == lookup(argv[1], 1)
       IN IF i <= Len(commands)
          THEN Invoke(commands[i].func, g, argv, env)
          ELSE printf(g, Line("ERROR", 15, 256, "command not found", <<>>))

\* parse_line(line_read) for a line g_shell_parse_argv rejects (an unbalanced
\* quote): the call's result is not tested and it leaves argcp and argvp, two
\* uninitialized locals, unset.  Reading argvp[0] then either kills the process
\* (fault) or finds the words the slot still holds (stale) and dispatches them.
parse_line_unparsed(g, fault, stale, env) ==
  IF fault \/ stale = <<>> THEN [g EXCEPT !.event_loop = "crashed"]
  ELSE parse_line(g, FALSE, stale, env)

(***************************************************************************)
(* Inputs: the lines the user types, and what the peer and the transport   *)
(* answer.                                                                 *)
(***************************************************************************)
t_addr == <<"0","0",":","1","1">>
t_uuid == <<"2","a","0","0">>
t_zz == <<"z","z">>
t_1 == <<"1">>
t_5 == <<"5">>
t_2 == <<"2">>
t_01 == <<"0","1">>
t_64 == <<"6","4">>
t_31 == <<"3","1">>
t_High == <<"H","i","g","h">>
t_foo == <<"f","o","o">>
t_addr2 == <<"2","2",":","3","3">>
t_random == <<"r","a","n","d","o","m">>

Name(i) == commands[i].cmd
ToUpperStr(s) == [i \in 1..Len(s) |-> toupper(s[i])]
Capitalize(s) == [i \in 1..Len(s) |-> IF i = 1 THEN toupper(s[i]) ELSE s[i]]

\* the argument lists tried with each command, by its place in the table
ArgLists(i) ==
  CASE i \in {1, 2, 3, 5} -> {<<>>}
    [] i = 4 -> {<<>>, <<t_addr>>}
    [] i = 6 -> {<<>>, <<t_uuid>>, <<t_zz>>}
    [] i = 7 -> {<<>>, <<t_1, t_5>>, <<t_5, t_1>>, <<t_zz>>, <<t_1, t_zz>>,
                 <<t_1, t_5, t_zz>>, <<t_1, t_5, t_uuid>>}
    [] i = 8 -> {<<>>, <<t_1, t_5>>, <<t_5, t_1>>, <<t_zz>>, <<t_1, t_zz>>}
    [] i = 9 -> {<<>>, <<t_5>>, <<t_zz>>, <<t_5, t_zz>>, <<t_5, t_2>>}
    [] i = 10 -> {<<>>, <<t_zz>>, <<t_uuid>>, <<t_uuid, t_zz>>, <<t_uuid, t_5, t_1>>,
                  <<t_uuid, t_1, t_5>>}
    [] i \in {11, 12} -> {<<>>, <<t_5>>, <<t_5, t_01>>, <<t_zz, t_01>>, <<t_5, t_1>>}
    [] i = 13 -> {<<>>, <<str_low>>, <<t_zz>>}
    [] i = 14 -> {<<>>, <<t_5>>, <<t_64>>}
    [] i = 15 -> {<<>>, <<t_31>>}

\* what the transport answers to the calls a handler makes synchronously:
\* whether gatt_connect returns a channel, and the error code of bt_io_set
DefaultEnv == [connect_ok |-> TRUE, set_err |-> 0]
EnvsOf(i) ==
  CASE i = 4 -> {DefaultEnv, [connect_ok |-> FALSE, set_err |-> 0]}
    [] i = 13 -> {DefaultEnv, [connect_ok |-> TRUE, set_err |-> 1]}
    [] OTHER -> {DefaultEnv}

\* the argument list a command is tried with when its name is not in lower case
CasedArgs(i) ==
  CASE i = 4 -> <<t_addr>>
    [] i \in {11, 12} -> <<t_5, t_01>>
    [] i = 13 -> <<t_High>>
    [] i = 14 -> <<t_64>>
    [] OTHER -> <<>>

ToLowerStr(s) == [i \in 1..Len(s) |-> tolower(s[i])]

\* a line: its words, what the transport answers to the handler's calls, and the
\* same words with the command name in lower case
Input(argv, env) ==
  [argv |-> argv, env |-> env,
   lowered |-> IF argv = <<>> THEN argv ELSE <<ToLowerStr(argv[1])>> \o Tail(argv)]

\* every command in lower case with each of its argument lists; every command
\* in lower case, in upper case and capitalized with one argument list; an
\* unknown command and the blank line
LowerInputs ==
  UNION { { Input(<<Name(i)>> \o args, e) : args \in ArgLists(i), e \in EnvsOf(i) } :
          i \in 1..Len(commands) }
CasedInputs ==
  UNION { { Input(<<nm>> \o CasedArgs(i), DefaultEnv) :
            nm \in {Name(i), ToUpperStr(Name(i)), Capitalize(Name(i))} } :
          i \in 1..Len(commands) }
OtherInputs == {Input(<<t_foo>>, DefaultEnv), Input(<<>>, DefaultEnv)}

\* the inputs of command i with the argument lists of argss, in lower case
InputsOf(i, argss) ==
  { Input(<<Name(i)>> \o args, e) : args \in argss, e \in EnvsOf(i) }

CoreInputs ==
  InputsOf(2, {<<>>}) \cup InputsOf(4, {<<>>, <<t_addr>>}) \cup InputsOf(5, {<<>>})
  \cup InputsOf(6, {<<>>}) \cup InputsOf(14, {<<>>, <<t_5>>, <<t_64>>})
  \cup InputsOf(15, {<<t_31>>})

PageInputs ==
  InputsOf(4, {<<t_addr>>}) \cup InputsOf(5, {<<>>})
  \cup InputsOf(8, {<<>>, <<t_1, t_5>>, <<t_5, t_1>>})
  \cup InputsOf(10, {<<t_uuid>>, <<t_uuid, t_1, t_5>>})

\* connect with and without an address and with an address type
ConnectInputs ==
  InputsOf(4, {<<>>, <<t_addr>>, <<t_addr2, t_random>>}) \cup InputsOf(5, {<<>>})
  \cup InputsOf(6, {<<>>})

\* the connection handles the transport assigns
ConnHandles == {64}

\* the lengths of the buffer g_attrib_get_buffer returns: the MTU of the
\* connection, the default or a larger one
BufferLengths == {ATT_DEFAULT_LE_MTU, ATT_DEFAULT_LE_MTU + 41}

\* the handles of the attributes the peer holds
HandleSamples == {1, 5, HANDLE_MAX}

\* sequences of n handles of HandleSamples within lo..hi, in increasing order
RECURSIVE Ascending(_, _, _)
Ascending(n, lo, hi) ==
  IF n = 0 THEN {<<>>}
  ELSE { <<h>> \o t : h \in {x \in HandleSamples : lo <= x /\ x <= hi},
                      t \in Ascending(n - 1, lo, hi) }

Increasing(p) == \A i \in 1..(Len(p) - 1) : p[i] < p[i + 1]

\* the non-empty pages a peer may return for the range lo..hi
Pages(lo, hi) ==
  UNION { {p \in Ascending(n, lo, hi) : Increasing(p)} : n \in 1..MaxPage }

Rsp(status, decoded, items, wr, set_ok) ==
  [status |-> status, decoded |-> decoded, items |-> items, wr |-> wr,
   set_ok |-> set_ok]

ErrorStatuses == {ATT_ECODE_ATTR_NOT_FOUND, ATT_ECODE_INVALID_HANDLE}

\* the responses the attribute client may deliver to the callback of req
Responses(req) ==
  { Rsp(st, FALSE, <<>>, "none", FALSE) : st \in ErrorStatuses }
  \cup
  CASE req.kind = "discover_primary" ->
         { Rsp(0, TRUE, p, "none", FALSE) : p \in Pages(1, HANDLE_MAX) \cup {<<>>} }
    [] req.kind = "discover_char" ->
         { Rsp(0, TRUE, p, "none", FALSE) : p \in Pages(req.a, req.b) \cup {<<>>} }
    [] req.kind \in {"find_info", "read_char_by_uuid"} ->
         { Rsp(0, TRUE, p, "none", FALSE) : p \in Pages(req.a, req.b) }
         \cup {Rsp(0, FALSE, <<>>, "none", FALSE)}
    [] req.kind = "read_char" ->
         {Rsp(0, TRUE, <<7>>, "none", FALSE), Rsp(0, FALSE, <<>>, "none", FALSE)}
    [] req.kind = "write_char" ->
         { Rsp(0, TRUE, <<>>, wr, FALSE) : wr \in {"write", "exec", "none"} }
    [] req.kind = "exchange_mtu" ->
         { Rsp(0, TRUE, <<>>, "none", ok) : ok \in BOOLEAN }
         \cup {Rsp(0, FALSE, <<>>, "none", FALSE)}

(***************************************************************************)
(* The state machine.                                                      *)
(***************************************************************************)
\* what the last turn handled: the event, the line's words and what the transport
\* answered to the handler's calls (a line), the request answered and the range
\* record as the callback left it (a response), the status or error or opcode the
\* event carried, the error of bt_io_get (a connect completion), the write
\* response recognised in the PDU (a response); with the
\* connection state and opt_mtu the turn started in, the number of completions
\* owed when it started, and what the same line with its command name in lower
\* case prints and sends in that state
NoLower == [out |-> <<>>, sent |-> <<>>]
Event(ev, argv, env, req, status, gerr, user, lower) ==
  [ev |-> ev, argv |-> argv, env |-> env, st |-> conn_state, mtu |-> opt_mtu,
   owed |-> Len(pending) + (IF connecting THEN 1 ELSE 0),
   req |-> req, status |-> status, gerr |-> gerr, user |-> user, lower |-> lower,
   wr |-> "none"]

\* an event that is neither a line nor a response
Async(ev, status, gerr) ==
  Event(ev, <<>>, DefaultEnv, NoReq, status, gerr, NoUser, NoLower)

Min(a, b) == IF a < b THEN a ELSE b

CountMtu(reqs) == Cardinality({i \in 1..Len(reqs) : reqs[i].kind = "exchange_mtu"})

\* the turn ends in the state r, having handled the event e
Commit(r, e) ==
  /\ conn_state' = r.conn_state
  /\ conn_handle' = r.conn_handle
  /\ iochannel' = r.iochannel
  /\ attrib' = r.attrib
  /\ opt_dst' = r.opt_dst
  /\ opt_dst_type' = r.opt_dst_type
  /\ opt_sec_level' = r.opt_sec_level
  /\ opt_psm' = r.opt_psm
  /\ opt_mtu' = r.opt_mtu
  /\ start' = r.start
  /\ end' = r.end
  /\ connecting' = r.connecting
  /\ watch' = r.watch
  /\ pending' = r.pending
  /\ event_loop' = r.event_loop
  /\ out' = r.out
  /\ sent' = r.sent
  /\ tried' = r.tried
  /\ mtu_reqs' = IF r.conn_state # STATE_CONNECTED THEN 0
                 ELSE Min(MaxPending + 1, mtu_reqs + CountMtu(r.sent))
  /\ last' = e

Init ==
  /\ conn_state = STATE_DISCONNECTED
  /\ conn_handle = 0
  /\ iochannel = FALSE
  /\ attrib = FALSE
  /\ opt_dst = NULL
  /\ opt_dst_type = NULL
  /\ opt_sec_level = str_low
  /\ opt_psm = 0
  /\ opt_mtu = 0
  /\ start = 0
  /\ end = 0
  /\ connecting = FALSE
  /\ watch = FALSE
  /\ pending = <<>>
  /\ event_loop = "running"
  /\ out = <<>>
  /\ sent = <<>>
  /\ tried = <<>>
  /\ mtu_reqs = 0
  /\ last = Async("init", 0, 0)

\* what a turn printed and sent
Effect(r) == [out |-> r.out, sent |-> r.sent]

\* the turn of the line in, r being the state parse_line leaves
LineTurn(in, r) ==
  Commit(r, Event("line", in.argv, in.env, NoReq, 0, 0, NoUser,
                  Effect(IF in.lowered = in.argv THEN r
                         ELSE parse_line(Globals, FALSE, in.lowered, in.env))))

\* readline delivers one of the lines of ins to parse_line; the user types a
\* line only while fewer than room requests wait in the attribute client's queue
ReadLine(ins, room) ==
  /\ event_loop = "running"
  /\ Len(pending) < room
  /\ \E in \in ins : LineTurn(in, parse_line(Globals, FALSE, in.argv, in.env))

\* readline delivers a line the tokenizer rejects; the words argvp may still
\* hold are those of the line before
ReadUnparsed(room) ==
  /\ event_loop = "running"
  /\ Len(pending) < room
  /\ \E fault \in BOOLEAN :
       Commit(parse_line_unparsed(Globals, fault, last.argv, last.env),
              Async("unparsed", 0, 0))

\* readline delivers end of input
ReadEof ==
  /\ event_loop = "running"
  /\ Commit(parse_line(Globals, TRUE, <<>>, DefaultEnv),
            Async("eof", 0, 0))

\* the transport completes the connect attempt
ConnectComplete ==
  /\ event_loop = "running"
  /\ connecting
  /\ \E res \in {[err |-> 1, gerr |-> 0, h |-> 0], [err |-> 0, gerr |-> 1, h |-> 0]}
                \cup {[err |-> 0, gerr |-> 0, h |-> h] : h \in ConnHandles} :
       Commit(connect_cb([Globals EXCEPT !.connecting = FALSE], res.err, res.gerr, res.h),
              Async("connect_cb", res.err, res.gerr))

\* the attribute client delivers the response to the request at the head of its queue
Response ==
  /\ event_loop = "running"
  /\ attrib
  /\ pending # <<>>
  /\ LET req == Head(pending)
     IN \E rsp \in Responses(req) :
          Commit(Complete([Globals EXCEPT !.pending = Tail(@)], req, rsp),
                 [Event("response", <<>>, DefaultEnv, req, rsp.status, 0,
                        char_data_after(req.user, rsp), NoLower)
                    EXCEPT !.wr = rsp.wr])

\* the attribute client delivers an unsolicited PDU to the registered handler
InboundPdu ==
  /\ event_loop = "running"
  /\ attrib
  /\ \E opcode \in {ATT_OP_HANDLE_NOTIFY, ATT_OP_HANDLE_IND, ATT_OP_OTHER},
        plen \in BufferLengths :
       Commit(events_handler(Globals, opcode, enc_confirmation(plen) > 0),
              Async("pdu", opcode, 0))

\* the channel's G_IO_HUP watch fires
Hangup ==
  /\ event_loop = "running"
  /\ watch
  /\ Commit(channel_watcher(Globals), Async("hup", 0, 0))

\* g_main_loop_run returns and interactive() cleans up
Cleanup ==
  /\ event_loop = "quit"
  /\ Commit([cmd_disconnect(Globals, <<>>) EXCEPT !.event_loop = "returned"],
            Async("cleanup", 0, 0))

\* one turn of the main loop, the user typing lines of ins
NextOf(ins, room) ==
  \/ ReadLine(ins, room)
  \/ ReadUnparsed(room)
  \/ ReadEof
  \/ ConnectComplete
  \/ Response
  \/ InboundPdu
  \/ Hangup
  \/ Cleanup

\* the connection commands, one discovery and the MTU exchange
Next == NextOf(CoreInputs, MaxPending)
Spec == Init /\ [][Next]_vars

\* the two paginated operations
NextPages == NextOf(PageInputs, MaxPending)
SpecPages == Init /\ [][NextPages]_vars

\* the whole command surface in lower case: every command and argument list
NextSurface == NextOf(LowerInputs \cup OtherInputs, 1)
SpecSurface == Init /\ [][NextSurface]_vars

\* connecting and disconnecting
NextConnect == NextOf(ConnectInputs, 1)
SpecConnect == Init /\ [][NextConnect]_vars
\* the same, the transport completing every connect attempt it was handed:
\* connect_cb is called once the main loop is running with an attempt open
SpecConnectFair == SpecConnect /\ WF_vars(ConnectComplete)

\* every command in upper case, capitalized and in lower case
NextCase == NextOf(CasedInputs, 1)
SpecCase == Init /\ [][NextCase]_vars

(***************************************************************************)
(* The claims.  A line is told by the command name it carries, whatever    *)
(* its letter case.                                                        *)
(***************************************************************************)
IsLine == last.ev = "line" /\ last.argv # <<>>
LineOf(i) == IsLine /\ ToLowerStr(last.argv[1]) = Name(i)
\* primary, characteristics, char-desc, char-read-hnd, char-read-uuid,
\* char-write-req, char-write-cmd and mtu, by their place in the table
ConnectedOnly == {6, 7, 8, 9, 10, 11, 12, 14}
ConnectedOnlyLine == \E i \in ConnectedOnly : LineOf(i)
\* the number of arguments of the last line, and its k-th argument
Argc == Len(last.argv) - 1
Arg(k) == last.argv[k + 1]
\* the codes of the lines of o that carry the tag
RECURSIVE CodesOf(_, _)
CodesOf(o, tag) ==
  IF o = <<>> THEN <<>>
  ELSE (IF Head(o).tag = tag THEN <<Head(o).code>> ELSE <<>>) \o CodesOf(Tail(o), tag)

\* C1: at every turn boundary the connection handle is non-zero if and only if
\* the connection state is Connected
C1_HandleIffConnected == (conn_handle # 0) <=> (conn_state = STATE_CONNECTED)
\* a hang-up has taken the connection out of Connected and the handle is 0 again
C1_Witness ==
  last.ev = "hup" /\ last.st = STATE_CONNECTED /\ conn_handle = 0
    /\ conn_state = STATE_DISCONNECTED

\* C2: a Connected-only command typed while Disconnected or Connecting hands no
\* request to the attribute client, whatever its arguments
C2_NoRequestUnlessConnected ==
  (ConnectedOnlyLine /\ last.st # STATE_CONNECTED) => sent = <<>>
\* char-read-hnd with a valid handle typed while Connecting sent nothing
C2_Witness ==
  LineOf(9) /\ Argc = 1 /\ Arg(1) = t_5 /\ last.st = STATE_CONNECTING /\ sent = <<>>

\* C3: a Connected-only command typed while Disconnected or Connecting prints
\* exactly one line, the disconnected error with result code 256, whatever its
\* arguments (too few included)
C3_DisconnectedErrorLine ==
  (ConnectedOnlyLine /\ last.st # STATE_CONNECTED)
    => (Len(out) = 1 /\ out[1].code = 256)

\* a connect command that started a transport attempt which failed at once
ConnectFailedSync ==
  LineOf(4) /\ last.st = STATE_DISCONNECTED /\ opt_dst # NULL /\ ~last.env.connect_ok
\* a connect completion that carries a transport error
ConnectFailedAsync == last.ev = "connect_cb" /\ last.status # 0

\* C4: a connect that fails at the transport, at initiation or in the connect
\* completion, leaves the state Disconnected and the handle 0
C4_FailedConnectDisconnected ==
  (ConnectFailedSync \/ ConnectFailedAsync)
    => (conn_state = STATE_DISCONNECTED /\ conn_handle = 0)
\* the connect completion reported an error for an attempt made in Connecting
C4_Witness ==
  ConnectFailedAsync /\ last.st = STATE_CONNECTING /\ conn_state = STATE_DISCONNECTED

\* a connect completion without error whose handle was retrieved
ConnectSucceeded == last.ev = "connect_cb" /\ last.status = 0 /\ last.gerr = 0
\* a disconnect command or a hang-up in Connected or Connecting
Disconnected ==
  (LineOf(5) \/ last.ev = "hup") /\ last.st \in {STATE_CONNECTED, STATE_CONNECTING}

\* C5: after a successful connect the state is Connected and the handle is not
\* 0; after a disconnect command or a hang-up in Connected or Connecting the
\* state is Disconnected, the handle 0 and the negotiated MTU 0
C5_ConnectThenDisconnect ==
  /\ ConnectSucceeded => (conn_state = STATE_CONNECTED /\ conn_handle # 0)
  /\ Disconnected
       => (conn_state = STATE_DISCONNECTED /\ conn_handle = 0 /\ opt_mtu = 0)
\* a disconnect command ended a connection on which an MTU had been requested
C5_Witness ==
  LineOf(5) /\ last.st = STATE_CONNECTED /\ last.mtu # 0 /\ opt_mtu = 0
    /\ conn_state = STATE_DISCONNECTED

\* the response to a descriptor discovery request ended the operation
DescDone == last.ev = "response" /\ last.req.kind = "find_info" /\ sent = <<>>
\* the codes of all CHAR-DESC-END lines the operation printed, this turn included
DescEnds == last.req.hist.ends \o CodesOf(out, "CHAR-DESC-END")

\* C6: a page of descriptors whose last handle h is below the end the command
\* gave is followed by a request for [h+1, end]; when a follow-up request is answered with
\* attribute-not-found the operation ends, having printed one CHAR-DESC-END
\* line in all, with code 0
C6_DescPagination ==
  /\ (/\ last.ev = "response" /\ last.req.kind = "find_info" /\ last.status = 0
      /\ Len(out) > 1 /\ end = last.req.b
      /\ out[Len(out) - 1].data[1] < last.req.b)
       => (/\ Len(sent) = 1 /\ sent[1].kind = "find_info"
           /\ sent[1].a = out[Len(out) - 1].data[1] + 1
           /\ sent[1].b = last.req.b
           /\ sent[1].hist.reqs = last.req.hist.reqs + 1)
  /\ (/\ last.ev = "response" /\ last.req.kind = "find_info"
      /\ last.req.hist.reqs > 1 /\ last.status = ATT_ECODE_ATTR_NOT_FOUND)
       => (sent = <<>> /\ DescEnds = <<0>>)

\* the handle of the last attribute of a read-by-UUID page that was decoded
LastRead == last.user.start - 1

\* C7: a page of a read by UUID whose last handle h is below the end is
\* followed by a read-by-UUID request for [h+1, end] with the same UUID
C7_ReadUuidPagination ==
  (/\ last.ev = "response" /\ last.req.kind = "read_char_by_uuid"
   /\ last.status = 0 /\ last.user.start # last.req.user.start
   /\ LastRead >= 0 /\ LastRead < last.req.user.end)
    => (/\ Len(sent) = 1 /\ sent[1].kind = "read_char_by_uuid"
        /\ sent[1].a = LastRead + 1 /\ sent[1].b = last.req.user.end
        /\ sent[1].uuid = last.req.uuid)

\* the MTU exchange requests sent on this connection before the last turn
MtuReqsBefore == mtu_reqs - CountMtu(sent)
OncePerConnection ==
  /\ Len(out) = 1
  /\ out[1].tag = "MTU" /\ out[1].code = ATT_ECODE_UNLIKELY
  /\ out[1].msg = "Command failed: MTU exchange can only occur once per connection."
\* an mtu command typed on a connection on which an exchange was already sent
LaterMtu == LineOf(14) /\ last.st = STATE_CONNECTED /\ MtuReqsBefore >= 1

\* C8 as claimed: at most one MTU exchange request is sent on a connection, and
\* every later mtu command on it fails with the once-per-connection error and
\* sends nothing
C8_Original ==
  /\ mtu_reqs <= 1
  /\ LaterMtu => (sent = <<>> /\ OncePerConnection)

\* C8 as amended: at most one MTU exchange request is sent on a connection;
\* every later mtu command on it sends nothing, and fails with the
\* once-per-connection error when it carries a value (with the usage error when
\* it carries none); a successful connect starts with no MTU negotiated, and on
\* an LE connection with no MTU negotiated an mtu command with a value of at
\* least the default sends one exchange request
C8_MtuOncePerConnection ==
  /\ mtu_reqs <= 1
  /\ LaterMtu => sent = <<>>
  /\ (LaterMtu /\ Argc >= 1) => OncePerConnection
  /\ (LaterMtu /\ Argc = 0) => (Len(out) = 1 /\ out[1].code = 257)
  /\ ConnectSucceeded => (opt_mtu = 0 /\ mtu_reqs = 0)
  /\ (/\ LineOf(14) /\ last.st = STATE_CONNECTED /\ opt_psm = 0 /\ last.mtu = 0
      /\ Argc >= 1 /\ Arg(1) = t_64)
       => (Len(sent) = 1 /\ sent[1].kind = "exchange_mtu" /\ out = <<>>)
\* a second mtu command with a value was refused after the exchange was sent
C8_Witness ==
  LaterMtu /\ Argc = 1 /\ Arg(1) = t_64 /\ OncePerConnection /\ sent = <<>>

\* C9: a line prints and sends what the same line with its command name in
\* lower case prints and sends
C9_CaseInsensitive ==
  IsLine => (out = last.lower.out /\ sent = last.lower.sent)

\* a string of hexadecimal digits, and its value
HexOk(t) == Len(t) >= 1 /\ \A k \in 1..Len(t) : IsDigit(t[k], 16)
HexVal(t) == DigitsValue(t, 1, Len(t), 16, 0)
DecOk(t) == Len(t) >= 1 /\ \A k \in 1..Len(t) : IsDigit(t[k], 10)
\* the arguments j and k are handles and end a range before it starts
BadRange(j, k) ==
  Argc >= k /\ HexOk(Arg(j)) /\ HexOk(Arg(k)) /\ HexVal(Arg(k)) < HexVal(Arg(j))
\* the last line's arguments fail the validation its operation asks for
ValidationFails ==
  \/ LineOf(6) /\ Argc >= 1 /\ ~bt_string_to_uuid_ok(Arg(1))
  \/ LineOf(7) /\ \/ Argc >= 1 /\ ~HexOk(Arg(1))
                  \/ Argc >= 2 /\ ~HexOk(Arg(2))
                  \/ Argc >= 3 /\ ~bt_string_to_uuid_ok(Arg(3))
                  \/ BadRange(1, 2)
  \/ LineOf(8) /\ \/ Argc >= 1 /\ ~HexOk(Arg(1))
                  \/ Argc >= 2 /\ ~HexOk(Arg(2))
                  \/ BadRange(1, 2)
  \/ LineOf(9) /\ \/ Argc = 0
                  \/ Argc >= 1 /\ ~HexOk(Arg(1))
                  \/ Argc >= 2 /\ ~DecOk(Arg(2))
  \/ LineOf(10) /\ \/ Argc = 0
                   \/ Argc >= 1 /\ ~bt_string_to_uuid_ok(Arg(1))
                   \/ Argc >= 2 /\ ~HexOk(Arg(2))
                   \/ Argc >= 3 /\ ~HexOk(Arg(3))
                   \/ BadRange(2, 3)
  \/ (LineOf(11) \/ LineOf(12)) /\ \/ Argc < 2
                                   \/ ~HexOk(Arg(1))
                                   \/ Len(Arg(2)) < 2

\* C10: an operation handler invoked while Connected with arguments that fail
\* validation hands no request to the attribute client and prints exactly one
\* line, a failure
C10_ValidationFailure ==
  (ValidationFails /\ last.st = STATE_CONNECTED)
    => (sent = <<>> /\ Len(out) = 1 /\ out[1].code # 0)

\* the connection state and the configuration are what they were
ConfigUnchanged ==
  /\ conn_state' = conn_state /\ conn_handle' = conn_handle
  /\ opt_dst' = opt_dst /\ opt_dst_type' = opt_dst_type
  /\ opt_sec_level' = opt_sec_level /\ opt_psm' = opt_psm /\ opt_mtu' = opt_mtu

\* C11: a line the tokenizer rejects invokes no handler (nothing is sent), leaves
\* the connection state and the configuration unchanged, prints one error
\* report, and the loop keeps running
C11_UnparsedLine ==
  [][last'.ev = "unparsed"
       => (/\ ConfigUnchanged
           /\ sent' = <<>>
           /\ Len(out') = 1 /\ out'[1].tag = "ERROR"
           /\ event_loop' = "running")]_vars

\* the last turn handled an exit or quit line, or the end of input
ExitTurn == LineOf(2) \/ LineOf(3) \/ last.ev = "eof"

\* C12: the event loop stops in a turn if and only if the turn handled an exit
\* or quit line or the end of input
C12_StopsIffExit ==
  [][event_loop = "running" => ((event_loop' # "running") <=> ExitTurn')]_vars

\* C13: a connect line typed while Connecting or Connected starts no transport
\* attempt and leaves the state, the handle, the destination address and the
\* address type unchanged; a connect line typed while Disconnected, a
\* destination address being known, starts one attempt, in the state Connecting
C13_ConnectOnlyDisconnected ==
  [][/\ (LineOf(4)' /\ conn_state # STATE_DISCONNECTED)
          => (/\ tried' = <<>>
              /\ conn_state' = conn_state /\ conn_handle' = conn_handle
              /\ opt_dst' = opt_dst /\ opt_dst_type' = opt_dst_type)
     /\ (LineOf(4)' /\ conn_state = STATE_DISCONNECTED /\ opt_dst' # NULL)
          => tried' = <<STATE_CONNECTING>>]_vars
\* a connect line naming another address was typed while Connected, and the
\* destination is still the first address
C13_Witness ==
  LineOf(4) /\ Argc = 2 /\ Arg(1) = t_addr2 /\ last.st = STATE_CONNECTED
    /\ opt_dst = t_addr /\ tried = <<>> /\ conn_state = STATE_CONNECTED

SecLevelLine ==
  LineOf(13) /\ Argc >= 1
    /\ \E lv \in {str_low, str_medium, str_high} : ToLowerStr(Arg(1)) = lv
\* the change is rejected: LE (no PSM) and not Connected, or BR/EDR (a PSM) and
\* not Disconnected
SecLevelRejected ==
  \/ opt_psm = 0 /\ last.st # STATE_CONNECTED
  \/ opt_psm # 0 /\ last.st # STATE_DISCONNECTED

\* C15: a rejected sec-level change prints only its rejection (code 256): no
\* success line and no outcome of setting the level on the transport
C15_SecLevelRejected ==
  (SecLevelLine /\ SecLevelRejected)
    => (Len(out) >= 1 /\ \A i \in 1..Len(out) : out[i].code = 256)

\* the completions still owed: the requests awaiting a response and the connect
\* attempt in flight
Owed == Len(pending) + (IF connecting THEN 1 ELSE 0)

\* C16: once a disconnect or a hang-up has completed no completion is owed any
\* more, none is owed in Disconnected, and no connect completion or response is
\* delivered in Disconnected: the completions of work started before a teardown
\* never fire after it
C16_NoCompletionAfterTeardown ==
  /\ Disconnected => Owed = 0
  /\ conn_state = STATE_DISCONNECTED => Owed = 0
  /\ last.ev \in {"response", "connect_cb"} => last.st # STATE_DISCONNECTED
\* a disconnect line was typed while completions were owed, and none is owed now
C16_Witness ==
  LineOf(5) /\ last.st = STATE_CONNECTED /\ last.owed >= 1 /\ Owed = 0
    /\ conn_state = STATE_DISCONNECTED

\* the tag of the line that closes the listing a callback prints
EndTag(cb) ==
  CASE cb = "primary_all_cb" -> "PRIMARY-ALL-END"
    [] cb = "primary_by_uuid_cb" -> "PRIMARY-UUID-END"
    [] cb = "char_cb" -> "CHAR-END"
    [] cb = "char_desc_cb" -> "CHAR-DESC-END"
    [] cb = "char_read_by_uuid_cb" -> "CHAR-READ-UUID-END"
    [] OTHER -> "none"
\* the response to a request of a listing operation ended the operation
ListingDone ==
  /\ last.ev = "response"
  /\ last.req.kind \in {"discover_primary", "discover_char", "find_info",
                        "read_char_by_uuid"}
  /\ sent = <<>>

\* C17: when the callback of a listing operation has fired and the operation
\* has finished, the last line printed is the operation's END line, with the
\* status of the response as its code
C17_ListingEnds ==
  ListingDone
    => (/\ Len(out) >= 1
        /\ out[Len(out)].tag = EndTag(last.req.cb)
        /\ out[Len(out)].code = last.status)


\* the line read is a write of the given name, in any case of letters, with a
\* valid handle and value, read while Connected
ValidWrite(name) ==
  /\ last.ev = "line"
  /\ Len(last.argv) >= 3
  /\ ToLowerStr(last.argv[1]) = name
  /\ last.st = STATE_CONNECTED
  /\ strtohandle(last.argv[2]) > 0
  /\ gatt_attr_data_from_string(last.argv[3]) > 0
str_char_write_cmd == <<"c","h","a","r","-","w","r","i","t","e","-","c","m","d">>
\* the code char_write_req_cb reports for the response of the last turn
WriteReqCode ==
  IF last.status # 0 THEN last.status
  ELSE IF last.wr \in {"write", "exec"} THEN 0 ELSE 1

\* C18: a valid char-write-cmd prints its success line, code 0, in the turn that
\* sends the write, and no response prints a CHAR-WRITE-CMD line; a valid
\* char-write-req prints nothing in the turn that sends the request, and its
\* response prints exactly one line, CHAR-WRITE-REQ, with code 0 when the status
\* is 0 and a write or execute-write response is recognised, 1 when the status is
\* 0 and neither is, and the peer's error code otherwise
C18_WriteReports ==
  /\ ValidWrite(str_char_write_cmd)
       => (/\ out = <<Line("CHAR-WRITE-CMD", conn_handle, 0, "", <<>>)>>
           /\ Len(sent) = 1 /\ sent[1].cb = "NULL"
           /\ Len(pending) = last.owed - (IF connecting THEN 1 ELSE 0))
  /\ last.ev = "response" => CodesOf(out, "CHAR-WRITE-CMD") = <<>>
  /\ ValidWrite(str_char_write_req)
       => (/\ out = <<>>
           /\ Len(sent) = 1 /\ sent[1].cb = "char_write_req_cb")
  /\ (last.ev = "response" /\ last.req.cb = "char_write_req_cb")
       => out = <<Line("CHAR-WRITE-REQ", conn_handle, WriteReqCode, "", <<>>)>>
\* the same for lines whose command name is typed in lower case
C18_LowerCase ==
  (last.ev = "line" /\ Len(last.argv) >= 1 /\ ToLowerStr(last.argv[1]) # last.argv[1])
    \/ C18_WriteReports


\* C19: a connect attempt that fails at the transport, in the call that starts
\* it or in its completion, prints exactly one CONNECTED line, with a code other
\* than 0
C19_ConnectFailureReported ==
  (ConnectFailedSync \/ ConnectFailedAsync)
    => (/\ Len(CodesOf(out, "CONNECTED")) = 1
        /\ CodesOf(out, "CONNECTED")[1] # 0)
\* the same for the failures delivered to connect_cb only
C19_AsyncReported ==
  ConnectFailedAsync
    => (/\ Len(CodesOf(out, "CONNECTED")) = 1
        /\ CodesOf(out, "CONNECTED")[1] # 0)


\* the last turn processed a successful page of a read by UUID: the item lines
\* and the END line are on the output
UuidPageRead ==
  /\ last.ev = "response"
  /\ last.req.kind = "read_char_by_uuid"
  /\ last.status = 0
  /\ Len(out) >= 2

\* C20: after a successful page of a read by UUID over [orig_start, end], whose
\* handles lie between the cursor and end (0xffff included), the range record
\* has orig_start <= start <= end + 1, and start is greater than before the page
C20_CursorInRange ==
  UuidPageRead
    => (/\ last.user.orig_start <= last.user.start
        /\ last.user.start <= last.user.end + 1
        /\ last.user.start > last.req.user.start)
\* the same for the pages whose last handle is below 0xffff
C20_BelowMax ==
  (UuidPageRead /\ last.user.start # 0) => C20_CursorInRange


\* the state has left Connecting, or the user has ended the main loop
ConnectingLeft == conn_state # STATE_CONNECTING \/ event_loop # "running"

\* C21: when the transport completes every connect attempt, the state Connecting
\* is always followed by Connected or Disconnected while the main loop runs; it
\* does not stay Connecting after connect_cb has run, the failure of bt_io_get
\* to retrieve the handle included
C21_ConnectingEnds == (conn_state = STATE_CONNECTING) ~> ConnectingLeft
\* a connect completion in which bt_io_get does not fail ends Connecting
C21_HandleRetrieved ==
  (last.ev = "connect_cb" /\ last.gerr = 0) => conn_state # STATE_CONNECTING

\* C22: at every turn boundary, in Disconnected neither the channel nor the
\* attribute client is held, and in Connected both are
C22_ResourcesFollowState ==
  /\ conn_state = STATE_DISCONNECTED => (~iochannel /\ ~attrib)
  /\ conn_state = STATE_CONNECTED => (iochannel /\ attrib)
\* the same, the channel of a failed attempt set aside: the attribute client
\* in both states and the channel in Connected
C22_ApartFromFailedChannel ==
  /\ conn_state = STATE_DISCONNECTED => ~attrib
  /\ conn_state = STATE_CONNECTED => (iochannel /\ attrib)
\* sec-level, read in Disconnected with a PSM set, reports the error of bt_io_set
C22_SecLevelOnLeftover ==
  ~(/\ LineOf(13)
    /\ last.st = STATE_DISCONNECTED
    /\ CodesOf(out, "SEC-LEVEL") = <<1>>)


\* C23: a disconnect command or a hang-up that takes the state from Connected or
\* Connecting to Disconnected prints exactly one DISCONNECTED line, and a hang-up
\* in Disconnected prints none
C23_OneLinePerTeardown ==
  /\ Disconnected => Len(CodesOf(out, "DISCONNECTED")) = 1
  /\ (last.ev = "hup" /\ last.st = STATE_DISCONNECTED)
       => CodesOf(out, "DISCONNECTED") = <<>>
\* the same for the disconnect command alone
C23_UserDisconnect ==
  (LineOf(5) /\ last.st \in {STATE_CONNECTED, STATE_CONNECTING})
    => Len(CodesOf(out, "DISCONNECTED")) = 1
\* a hang-up prints one DISCONNECTED line more than the disconnect command in
\* the same state
C23_HangupPrintsOneMore ==
  last.ev = "hup"
    => Len(CodesOf(out, "DISCONNECTED"))
         = (IF last.st = STATE_DISCONNECTED THEN 1 ELSE 2)


\* an mtu command with a value, typed on an LE connection on which no exchange
\* request was sent before
FirstMtu ==
  /\ LineOf(14) /\ Argc >= 1
  /\ last.st = STATE_CONNECTED /\ opt_psm = 0
  /\ MtuReqsBefore = 0
\* the value of the mtu command is below the default MTU
MtuTooSmall == strtoll(Arg(1), 0).val < ATT_DEFAULT_LE_MTU

\* C24: an mtu command refused for a value below the default leaves opt_mtu as
\* it was, and an mtu command with a valid value on a connection with no exchange
\* sent yet is not refused as once per connection: it sends the exchange request
C24_RejectedMtuNoEffect ==
  /\ (FirstMtu /\ MtuTooSmall) => opt_mtu = last.mtu
  /\ (FirstMtu /\ ~MtuTooSmall)
       => (/\ ~OncePerConnection
           /\ Len(sent) = 1 /\ sent[1].kind = "exchange_mtu")
\* the same on a connection on which no mtu command was refused for its value
C24_NoEarlierRejection ==
  (FirstMtu /\ ~MtuTooSmall /\ last.mtu = 0)
    => (/\ ~OncePerConnection
        /\ Len(sent) = 1 /\ sent[1].kind = "exchange_mtu")


\* the response of the last turn made char_desc_cb send a follow-up request
DescFollowUp ==
  /\ last.ev = "response"
  /\ last.req.cb = "char_desc_cb"
  /\ sent # <<>>

\* C25: every follow-up request of a descriptor discovery has the end handle of
\* the request it follows, hence of the char-desc command that started the
\* discovery, whatever lines were read between the pages
C25_FollowUpKeepsEnd == DescFollowUp => sent[1].b = last.req.b
\* the same when the global end still holds the end handle of the request
\* answered: no char-desc line has been read since the discovery started
C25_NoLineBetween ==
  (DescFollowUp /\ U16(end) = last.req.b) => sent[1].b = last.req.b

====
